---- MODULE Spec2Model ----
(***************************************************************************)
(* Model of the PDF text-extraction pipeline of tax_analyzer_backend.py:   *)
(* extract_text_from_pdf (digital extraction, then OCR fallback),          *)
(* ocr_scanned_pdf (rasterize, per-page OCR loop, aggregation) and         *)
(* ocr_space_api (the page OCR client).                                    *)
(*                                                                         *)
(* A text is a sequence of tokens.  A token is a run of characters:        *)
(*   k = "ws"  : n whitespace characters (id "sp" or "nl")                 *)
(*   k = "txt" : n non-whitespace characters, tagged id                    *)
(*   k = "hdr" : the literal "--- Page p ---" written by the OCR loop      *)
(* Python's str.strip() removes the leading and trailing "ws" tokens and   *)
(* len() is the sum of the run lengths.                                    *)
(***************************************************************************)
EXTENDS Integers, Sequences, FiniteSets, TLC

\* ------------------------------------------------------------------ bounds
MaxPages == 3
\* concurrent request handlers using the database
NumClients == 2
\* /register and /login requests started in one run
MaxRequests == 3

\* ------------------------------------------------------------------ texts
WS == [k |-> "ws", n |-> 1, id |-> "sp", p |-> 0]
NL == [k |-> "ws", n |-> 1, id |-> "nl", p |-> 0]
Txt(id, n) == [k |-> "txt", n |-> n, id |-> id, p |-> 0]
Hdr(p) == [k |-> "hdr", n |-> 14, id |-> "page", p |-> p]

RECURSIVE TextLen(_)
TextLen(t) == IF t = <<>> THEN 0 ELSE Head(t).n + TextLen(Tail(t))

RECURSIVE LStrip(_)
LStrip(t) == IF t = <<>> THEN <<>>
             ELSE IF Head(t).k = "ws" THEN LStrip(Tail(t)) ELSE t

RECURSIVE RStrip(_)
RStrip(t) == IF t = <<>> THEN <<>>
             ELSE IF t[Len(t)].k = "ws" THEN RStrip(SubSeq(t, 1, Len(t) - 1)) ELSE t

Strip(t) == RStrip(LStrip(t))

\* Python values that are either None or a str
None == [some |-> FALSE, text |-> <<>>]
Some(t) == [some |-> TRUE, text |-> t]
\* truthiness of an Optional[str]: None and "" are falsy
Truthy(v) == v.some /\ v.text # <<>>

\* ------------------------------------------------------------------ inputs
\* what page.get_text() can return for one page
DigitalPageTexts ==
    { <<>>, <<NL>>, <<Txt("a", 50)>>, <<Txt("b", 51), NL>> }

RECURSIVE SeqsOfLen(_, _)
SeqsOfLen(S, n) ==
    IF n = 0 THEN { <<>> }
    ELSE { Append(s, x) : s \in SeqsOfLen(S, n - 1), x \in S }

SeqsUpTo(S, n) == UNION { SeqsOfLen(S, m) : m \in 0..n }

\* an uploaded byte buffer: whether fitz can open it, whether pdf2image can
\* rasterize it, and the text layer of each page
Docs ==
    { [parseOK |-> FALSE, rasterOK |-> r, pages |-> <<>>] : r \in BOOLEAN }
    \cup
    { [parseOK |-> TRUE, rasterOK |-> r, pages |-> ps] :
        r \in BOOLEAN, ps \in SeqsUpTo(DigitalPageTexts, MaxPages) }

\* values of the OCR_SPACE_API_KEY environment variable
ApiKeys == { "", "K" }

OcrSizeLimit == 1024 * 1024

\* a rasterized page: its encoded size at quality 85 and at quality 60
PageImages ==
    { [size85 |-> OcrSizeLimit,     size60 |-> OcrSizeLimit],
      [size85 |-> OcrSizeLimit + 1, size60 |-> OcrSizeLimit],
      [size85 |-> OcrSizeLimit + 1, size60 |-> OcrSizeLimit + 1] }

\* what the remote OCR service (or the transport) can answer
NoResponse == [kind |-> "none", errored |-> FALSE, parsed |-> <<>>]
OcrResponses ==
    { [kind |-> "transport_error", errored |-> FALSE, parsed |-> <<>>],
      [kind |-> "timeout",         errored |-> FALSE, parsed |-> <<>>],
      [kind |-> "http_error",      errored |-> FALSE, parsed |-> <<>>],
      [kind |-> "bad_json",        errored |-> FALSE, parsed |-> <<>>],
      [kind |-> "json", errored |-> TRUE,  parsed |-> <<>>],
      [kind |-> "json", errored |-> FALSE, parsed |-> <<>>],
      [kind |-> "json", errored |-> FALSE, parsed |-> << <<WS>> >>],
      [kind |-> "json", errored |-> FALSE, parsed |-> << <<WS, Txt("x", 3)>> >>],
      [kind |-> "json", errored |-> FALSE,
         parsed |-> << <<Txt("x", 3)>>, <<Txt("y", 2)>> >>] }

\* ------------------------------------------------------------------ code
MeaningfulThreshold == 100

IsMeaningful_offByOne(t) ==
    Strip(t) # <<>> /\ TextLen(Strip(t)) >= MeaningfulThreshold

\* line 202: text.strip() and len(text.strip()) > 100
IsMeaningful(t) ==
    Strip(t) # <<>> /\ TextLen(Strip(t)) > MeaningfulThreshold

DigitalReturn_stripped(t) == Some(Strip(t))

\* line 204: return text
DigitalReturn(t) == Some(t)

KeyConfigured_always(key) == TRUE

\* line 87: if not OCR_SPACE_API_KEY
KeyConfigured(key) == key # ""

NeedsCompress_orEqual(size) == size >= OcrSizeLimit

\* line 157: len(img_bytes) > 1024 * 1024
NeedsCompress(size) == size > OcrSizeLimit

RawTextMissing_never(raw_text) == FALSE

\* line 367: if not raw_text
RawTextMissing(raw_text) == ~Truthy(raw_text)

\* what call_gemini_api and json.loads can give for a text: no summary,
\* a summary that is valid JSON, a summary that is not
GeminiOutcomes == { "none", "valid", "invalid" }

\* a response of the /summarize handler: status code and which message
NoHttp == [status |-> 0, error |-> "none"]
Http(status, error) == [status |-> status, error |-> error]

\* lines 120-122: text += page.get('ParsedText', '') + "\n"
RECURSIVE JoinParsed(_)
JoinParsed(parsed) ==
    IF parsed = <<>> THEN <<>>
    ELSE Head(parsed) \o <<NL>> \o JoinParsed(Tail(parsed))

OcrParse_noStrip(r) ==
    IF r.kind # "json" THEN None
    ELSE IF r.errored THEN None
    ELSE LET t == JoinParsed(r.parsed)
         IN IF t # <<>> THEN Some(t) ELSE None

\* lines 111-131: the value ocr_space_api returns for a given answer
OcrParse(r) ==
    IF r.kind # "json" THEN None
    ELSE IF r.errored THEN None
    ELSE LET t == JoinParsed(r.parsed)
         IN IF Strip(t) # <<>> THEN Some(Strip(t)) ELSE None

\* what the body of ocr_space_api raises on a given answer: requests.post
\* (line 111) raises on transport errors and timeouts, raise_for_status
\* (line 112) on a non-2xx status, response.json() (line 113) on a bad body
RaisedBy(r) ==
    CASE r.kind \in { "transport_error", "timeout", "http_error" } -> "RequestException"
      [] r.kind = "bad_json" -> "ValueError"
      [] OTHER -> "none"

ApiCatches_requestsOnly(exc) == exc = "RequestException"

\* lines 126-131: except RequestException ... except Exception
ApiCatches(exc) == exc \in { "RequestException", "ValueError" }

PostRequest_retry(log, page) ==
    log \o << [ev |-> "request", page |-> page], [ev |-> "return", page |-> page],
              [ev |-> "request", page |-> page] >>

\* line 111: requests.post(url, data=payload, timeout=30), once per invocation
PostRequest(log, page) == Append(log, [ev |-> "request", page |-> page])

SuccessCountAfter_always(count, page_text) == count + 1

\* lines 167-169: if page_text: ... success_count += 1
SuccessCountAfter(count, page_text) ==
    IF Truthy(page_text) THEN count + 1 ELSE count

PageSection_zeroBased(idx, page_text) ==
    <<NL, Hdr(idx), NL>> \o page_text \o <<NL>>

\* line 168: f"\n--- Page {i+1} ---\n{page_text}\n"
PageSection(idx, page_text) ==
    <<NL, Hdr(idx + 1), NL>> \o page_text \o <<NL>>

AppendSection_prepend(acc, section) == section \o acc

\* line 168: all_text += ...
AppendSection(acc, section) == acc \o section

ShouldSleep_always(idx, total) == idx < total

\* line 175: if i < total_pages - 1
ShouldSleep(idx, total) == idx < total - 1

AfterPageError_break(idx, total) == total

\* lines 178-180: except Exception as page_error: ... continue
AfterPageError(idx, total) == idx + 1

AggregateResult_noCheck(acc) == Some(Strip(acc))

\* lines 184-188: return all_text.strip() if all_text.strip() else None
AggregateResult(acc) ==
    IF Strip(acc) # <<>> THEN Some(Strip(acc)) ELSE None

ExtractResult_keepDigital(ocr_text, digital) ==
    IF Truthy(ocr_text) THEN ocr_text ELSE Some(digital)

\* lines 209-215: if ocr_text: return ocr_text else: return None
ExtractResult(ocr_text, digital) ==
    IF Truthy(ocr_text) THEN ocr_text ELSE None

\* ------------------------------------------------------------------ state
VARIABLES
    hasFile,        \* 'notice_pdf' in request.files
    doc,            \* pdf_bytes, the uploaded buffer
    apiKey,         \* OCR_SPACE_API_KEY
    pc,             \* position of the request in the pipeline
    pg,             \* number of pages whose text layer has been read
    text,           \* extract_text_from_pdf: text
    total_pages,    \* ocr_scanned_pdf: total_pages
    i,              \* ocr_scanned_pdf: loop index (0-based)
    all_text,       \* ocr_scanned_pdf: all_text
    success_count,  \* ocr_scanned_pdf: success_count
    first_bytes,    \* size of the first encoding of the page (quality 85)
    img_bytes,      \* size of the encoding handed to ocr_space_api
    saves,          \* image.save calls made for the current page
    response,       \* the answer received for the current page
    ocr_text,       \* extract_text_from_pdf: ocr_text (ocr_scanned_pdf's result)
    ret,            \* return value of extract_text_from_pdf
    source,         \* which return statement produced ret
    raster,         \* history: "none", "ok" or "failed" (convert_from_bytes)
    outcomes,       \* history: per visited page, what happened
    delays,         \* history: 0-based indices after which time.sleep ran
    ocrLog,         \* history: requests.post calls and their returns
    apiCalls,       \* history: number of ocr_space_api invocations
    http,           \* response of summarize_notice
    geminiCalls,    \* history: number of call_gemini_api invocations
    db_pool,        \* app.db_pool is not None
    borrowed,       \* handlers holding a connection taken with getconn
    users,          \* committed rows of the users table, in insertion order
    cl,             \* per handler: position, request and last response
    served,         \* history: requests started so far
    created,        \* history: per email, number of 201 responses
    uniqueHits      \* history: emails whose INSERT hit the UNIQUE constraint

pipeVars == << hasFile, doc, apiKey, pc, pg, text, total_pages, i, all_text,
               success_count, first_bytes, img_bytes, saves, response, ocr_text, ret,
               source, raster, outcomes, delays, ocrLog, apiCalls, http, geminiCalls >>

dbVars == << db_pool, borrowed, users, cl, served, created, uniqueHits >>

vars == << pipeVars, dbVars >>

digitalVars == << pg, text >>
loopVars == << total_pages, i, all_text, success_count >>
pageVars == << first_bytes, img_bytes, saves, response >>
histVars == << raster, outcomes, delays, ocrLog, apiCalls >>
inputVars == << hasFile, doc, apiKey >>
httpVars == << http, geminiCalls >>

\* ------------------------------------------------------------ database
Clients == 1..NumClients
Emails == { "e1", "e2" }
Passwords == { "p", "q" }

\* line 36: pool.SimpleConnectionPool(1, 10, dsn=DATABASE_URL)
PoolMax == 10

\* line 311: generate_password_hash, an opaque one-way value
PasswordHash(pw) == << "hash", pw >>

\* line 347: check_password_hash(user['password_hash'], data['password'])
CheckPasswordHash(h, pw) == h = PasswordHash(pw)

\* lines 316-317, 345-346: SELECT ... WHERE email = %s; cur.fetchone()
RowsWithEmail(rows, email) == { k \in 1..Len(rows) : rows[k].email = email }

UniqueViolation_noConstraint(rows, email) == FALSE

\* line 73: email VARCHAR(255) UNIQUE NOT NULL
UniqueViolation(rows, email) == RowsWithEmail(rows, email) # {}

PoolAfterExit_noFinally(out, c, how) ==
    IF how = "exception" THEN out ELSE out \ { c }

\* lines 55-57: finally: if conn: app.db_pool.putconn(conn)
PoolAfterExit(out, c, how) == out \ { c }

IdleClient == [pc |-> "idle", kind |-> "none", email |-> "", pw |-> "",
               pending |-> FALSE, status |-> 0]

DbIdle ==
    /\ borrowed = {}
    /\ users = <<>>
    /\ cl = [c \in Clients |-> IdleClient]
    /\ served = 0
    /\ created = [e \in Emails |-> 0]
    /\ uniqueHits = {}

\* the buffer of a request that carries no file is never read
NoDoc == [parseOK |-> FALSE, rasterOK |-> FALSE, pages |-> <<>>]

Init ==
    /\ db_pool = TRUE
    /\ DbIdle
    /\ hasFile \in BOOLEAN
    /\ doc \in IF hasFile THEN Docs ELSE { NoDoc }
    /\ apiKey \in ApiKeys
    /\ pc = "recv"
    /\ http = NoHttp
    /\ geminiCalls = 0
    /\ first_bytes = 0
    /\ pg = 0
    /\ text = <<>>
    /\ total_pages = 0
    /\ i = 0
    /\ all_text = <<>>
    /\ success_count = 0
    /\ img_bytes = 0
    /\ saves = 0
    /\ response = NoResponse
    /\ ocr_text = None
    /\ ret = None
    /\ source = "none"
    /\ raster = "none"
    /\ outcomes = <<>>
    /\ delays = {}
    /\ ocrLog = <<>>
    /\ apiCalls = 0

\* lines 358-366: summarize_notice reads the upload, or answers 400
ReceiveUpload ==
    /\ pc = "recv"
    /\ IF hasFile
       THEN /\ pc' = "open"
            /\ UNCHANGED << http >>
       ELSE /\ pc' = "http_done"
            /\ http' = Http(400, "no_file")
    /\ UNCHANGED << inputVars, digitalVars, loopVars, pageVars, ocr_text, ret, source,
                    histVars, geminiCalls, dbVars >>

\* line 198: fitz.open(stream=pdf_bytes); a parse error is caught at 217-219
OpenPdf ==
    /\ pc = "open"
    /\ IF doc.parseOK
       THEN /\ pc' = "get_text"
            /\ UNCHANGED << ocr_text, ret >>
       ELSE /\ pc' = "done"
            /\ ret' = None
            /\ UNCHANGED << ocr_text >>
    /\ UNCHANGED << httpVars, dbVars >>
    /\ UNCHANGED << inputVars, digitalVars, loopVars, pageVars, source, histVars >>

\* line 199: "".join(page.get_text() for page in doc), one page per step
GetPageText ==
    /\ pc = "get_text"
    /\ pg < Len(doc.pages)
    /\ text' = text \o doc.pages[pg + 1]
    /\ pg' = pg + 1
    /\ UNCHANGED << httpVars, dbVars >>
    /\ UNCHANGED << inputVars, pc, loopVars, pageVars, ocr_text, ret, source, histVars >>

\* lines 202-206
CheckMeaningful ==
    /\ pc = "get_text"
    /\ pg = Len(doc.pages)
    /\ IF IsMeaningful(text)
       THEN /\ pc' = "done"
            /\ ret' = DigitalReturn(text)
            /\ source' = "digital"
       ELSE /\ pc' = "rasterize"
            /\ UNCHANGED << ret, source >>
    /\ UNCHANGED << httpVars, dbVars >>
    /\ UNCHANGED << inputVars, digitalVars, loopVars, pageVars, ocr_text, histVars >>

\* lines 209, 138-144: convert_from_bytes; an error is caught at 190-192 and
\* ocr_scanned_pdf returns None, which extract_text_from_pdf turns into None
Rasterize ==
    /\ pc = "rasterize"
    /\ IF doc.rasterOK
       THEN /\ raster' = "ok"
            /\ total_pages' = Len(doc.pages)
            /\ pc' = "page"
            /\ UNCHANGED << ocr_text, ret >>
       ELSE /\ raster' = "failed"
            /\ pc' = "done"
            /\ ocr_text' = None
            /\ ret' = ExtractResult(ocr_text', text)
            /\ UNCHANGED << total_pages >>
    /\ i' = 0
    /\ all_text' = <<>>
    /\ success_count' = 0
    /\ UNCHANGED << httpVars, dbVars >>
    /\ UNCHANGED << inputVars, digitalVars, pageVars, source,
                    outcomes, delays, ocrLog, apiCalls >>

\* lines 151-162: encode the page, re-encode once if over the size limit
EncodePage ==
    /\ pc = "page"
    /\ i < total_pages
    /\ \E img \in PageImages :
         /\ first_bytes' = img.size85
         /\ IF NeedsCompress(img.size85)
            THEN img_bytes' = img.size60 /\ saves' = 2
            ELSE img_bytes' = img.size85 /\ saves' = 1
    /\ pc' = "ocr_api"
    /\ UNCHANGED << httpVars, dbVars >>
    /\ UNCHANGED << inputVars, digitalVars, loopVars, response, ocr_text, ret, source,
                    histVars >>

\* lines 152-153, 178-180: image.save raises; the page is skipped
PageRaise ==
    /\ pc = "page"
    /\ i < total_pages
    /\ outcomes' = Append(outcomes, [page |-> i + 1, st |-> "raised", text |-> <<>>])
    /\ i' = AfterPageError(i, total_pages)
    /\ UNCHANGED << httpVars, dbVars >>
    /\ UNCHANGED << inputVars, digitalVars, total_pages, all_text, success_count,
                    pageVars, pc, ocr_text, ret, source, raster, delays, ocrLog,
                    apiCalls >>

\* lines 167-172: what the loop does with the value ocr_space_api returned
HandlePageText(page_text) ==
    /\ IF Truthy(page_text)
       THEN /\ all_text' = AppendSection(all_text, PageSection(i, page_text.text))
            /\ outcomes' = Append(outcomes,
                              [page |-> i + 1, st |-> "ok", text |-> page_text.text])
       ELSE /\ outcomes' = Append(outcomes,
                              [page |-> i + 1, st |-> "failed", text |-> <<>>])
            /\ UNCHANGED << all_text >>
    /\ success_count' = SuccessCountAfter(success_count, page_text)
    /\ i' = i
    /\ pc' = "delay"

\* lines 165, 87-89: ocr_space_api without a key returns None at once
OcrNoKey ==
    /\ pc = "ocr_api"
    /\ ~KeyConfigured(apiKey)
    /\ apiCalls' = apiCalls + 1
    /\ HandlePageText(None)
    /\ UNCHANGED << httpVars, dbVars >>
    /\ UNCHANGED << inputVars, digitalVars, total_pages, pageVars, ocr_text, ret,
                    source, raster, delays, ocrLog >>

\* lines 165, 91-111: requests.post is issued
OcrRequest ==
    /\ pc = "ocr_api"
    /\ KeyConfigured(apiKey)
    /\ apiCalls' = apiCalls + 1
    /\ ocrLog' = PostRequest(ocrLog, i + 1)
    /\ pc' = "ocr_wait"
    /\ UNCHANGED << httpVars, dbVars >>
    /\ UNCHANGED << inputVars, digitalVars, loopVars, pageVars, ocr_text, ret, source,
                    raster, outcomes, delays >>

\* lines 178-180 reached from inside ocr_space_api: an exception that the
\* client does not catch aborts the page like any other page error
UncaughtInPage ==
    /\ outcomes' = Append(outcomes, [page |-> i + 1, st |-> "raised", text |-> <<>>])
    /\ i' = AfterPageError(i, total_pages)
    /\ pc' = "page"
    /\ UNCHANGED << all_text, success_count >>

\* lines 111-131, 167-172: the call returns (answer, error or timeout)
OcrResponse ==
    /\ pc = "ocr_wait"
    /\ \E r \in OcrResponses :
         /\ response' = r
         /\ IF RaisedBy(r) = "none" \/ ApiCatches(RaisedBy(r))
            THEN HandlePageText(OcrParse(r))
            ELSE UncaughtInPage
    /\ ocrLog' = Append(ocrLog, [ev |-> "return", page |-> i + 1])
    /\ UNCHANGED << httpVars, dbVars >>
    /\ UNCHANGED << inputVars, digitalVars, total_pages, first_bytes, img_bytes, saves,
                    ocr_text, ret, source, raster, delays, apiCalls >>

\* lines 174-176 and the loop's next iteration; the page's locals are dead
DelayStep ==
    /\ pc = "delay"
    /\ delays' = IF ShouldSleep(i, total_pages) THEN delays \cup {i} ELSE delays
    /\ i' = i + 1
    /\ first_bytes' = 0
    /\ img_bytes' = 0
    /\ saves' = 0
    /\ response' = NoResponse
    /\ pc' = "page"
    /\ UNCHANGED << httpVars, dbVars >>
    /\ UNCHANGED << inputVars, digitalVars, total_pages, all_text, success_count,
                    ocr_text, ret, source, raster, outcomes, ocrLog, apiCalls >>

\* lines 182-188, 210-215: the loop is over
Aggregate ==
    /\ pc = "page"
    /\ i >= total_pages
    /\ ocr_text' = AggregateResult(all_text)
    /\ ret' = ExtractResult(ocr_text', text)
    /\ source' = IF Truthy(ret') THEN "ocr" ELSE "none"
    /\ pc' = "done"
    /\ UNCHANGED << httpVars, dbVars >>
    /\ UNCHANGED << inputVars, digitalVars, loopVars, pageVars, histVars >>

\* lines 366-368: the extraction returned
SummarizeCheck ==
    /\ pc = "done"
    /\ IF RawTextMissing(ret)
       THEN /\ http' = Http(500, "extraction")
            /\ pc' = "http_done"
       ELSE /\ pc' = "gemini"
            /\ UNCHANGED << http >>
    /\ UNCHANGED << inputVars, digitalVars, loopVars, pageVars, ocr_text, ret, source,
                    histVars, geminiCalls, dbVars >>

\* lines 372-381: call_gemini_api(raw_text), then json.loads of the summary
CallGemini ==
    /\ pc = "gemini"
    /\ geminiCalls' = geminiCalls + 1
    /\ \E g \in GeminiOutcomes :
         http' = CASE g = "none"    -> Http(500, "ai_failed")
                   [] g = "invalid" -> Http(500, "ai_format")
                   [] g = "valid"   -> Http(200, "none")
    /\ pc' = "http_done"
    /\ UNCHANGED << inputVars, digitalVars, loopVars, pageVars, ocr_text, ret, source,
                    histVars, dbVars >>

Next ==
    \/ ReceiveUpload
    \/ SummarizeCheck
    \/ CallGemini
    \/ OpenPdf
    \/ GetPageText
    \/ CheckMeaningful
    \/ Rasterize
    \/ EncodePage
    \/ PageRaise
    \/ OcrNoKey
    \/ OcrRequest
    \/ OcrResponse
    \/ DelayStep
    \/ Aggregate

Spec == Init /\ [][Next]_vars

\* every step of the pipeline is eventually taken: the code is sequential and
\* each remote call has a timeout (30 s), so no step waits forever
FairSpec == Spec /\ WF_vars(Next)

\* ------------------------------------------------- /register and /login
\* a handler ends: its locals are gone, the response is kept
Respond(c, status) == [cl EXCEPT ![c] = [IdleClient EXCEPT !.status = status]]

\* lines 301-311: register_user up to the database work
RegisterStart(c) ==
    /\ cl[c].pc = "idle"
    /\ served < MaxRequests
    /\ served' = served + 1
    /\ \E email \in Emails, pw \in Passwords, complete \in BOOLEAN :
         cl' = IF ~db_pool THEN Respond(c, 503)
               ELSE IF ~complete THEN Respond(c, 400)
               ELSE [cl EXCEPT ![c] = [pc |-> "getconn", kind |-> "register",
                                       email |-> email, pw |-> pw,
                                       pending |-> FALSE, status |-> 0]]
    /\ UNCHANGED << db_pool, borrowed, users, created, uniqueHits, pipeVars >>

\* lines 333-340: login_user up to the database work
LoginStart(c) ==
    /\ cl[c].pc = "idle"
    /\ served < MaxRequests
    /\ served' = served + 1
    /\ \E email \in Emails, pw \in Passwords, complete \in BOOLEAN :
         cl' = IF ~db_pool THEN Respond(c, 503)
               ELSE IF ~complete THEN Respond(c, 400)
               ELSE [cl EXCEPT ![c] = [pc |-> "getconn", kind |-> "login",
                                       email |-> email, pw |-> pw,
                                       pending |-> FALSE, status |-> 0]]
    /\ UNCHANGED << db_pool, borrowed, users, created, uniqueHits, pipeVars >>

\* lines 46-54: get_db_connection takes a connection; an exhausted pool
\* raises, which the handler answers with 500 (lines 329-331, 352-354)
GetConn(c) ==
    /\ cl[c].pc = "getconn"
    /\ IF Cardinality(borrowed) < PoolMax
       THEN /\ borrowed' = borrowed \cup { c }
            /\ cl' = [cl EXCEPT ![c].pc = "select"]
       ELSE /\ cl' = Respond(c, 500)
            /\ UNCHANGED << borrowed >>
    /\ UNCHANGED << db_pool, users, served, created, uniqueHits, pipeVars >>

\* lines 316-318: the existence check; 409 returns from inside the with block
RegisterSelect(c) ==
    /\ cl[c].pc = "select"
    /\ cl[c].kind = "register"
    /\ IF RowsWithEmail(users, cl[c].email) # {}
       THEN /\ cl' = Respond(c, 409)
            /\ borrowed' = PoolAfterExit(borrowed, c, "return")
       ELSE /\ cl' = [cl EXCEPT ![c].pc = "insert"]
            /\ UNCHANGED << borrowed >>
    /\ UNCHANGED << db_pool, users, served, created, uniqueHits, pipeVars >>

\* lines 320-326: INSERT; it waits for a concurrent uncommitted insert of the
\* same email, and fails on the UNIQUE constraint (500, lines 329-331)
RegisterInsert(c) ==
    /\ cl[c].pc = "insert"
    /\ \A o \in Clients \ { c } : ~(cl[o].pending /\ cl[o].email = cl[c].email)
    /\ IF UniqueViolation(users, cl[c].email)
       THEN /\ cl' = Respond(c, 500)
            /\ borrowed' = PoolAfterExit(borrowed, c, "exception")
            /\ uniqueHits' = uniqueHits \cup { cl[c].email }
       ELSE /\ cl' = [cl EXCEPT ![c].pc = "commit", ![c].pending = TRUE]
            /\ UNCHANGED << borrowed, uniqueHits >>
    /\ UNCHANGED << db_pool, users, served, created, pipeVars >>

\* lines 327-328: conn.commit() and the 201 response
RegisterCommit(c) ==
    /\ cl[c].pc = "commit"
    /\ users' = Append(users, [email |-> cl[c].email,
                               password_hash |-> PasswordHash(cl[c].pw)])
    /\ created' = [created EXCEPT ![cl[c].email] = @ + 1]
    /\ cl' = Respond(c, 201)
    /\ borrowed' = PoolAfterExit(borrowed, c, "return")
    /\ UNCHANGED << db_pool, served, uniqueHits, pipeVars >>

\* lines 345-351: look the user up and check the password
LoginSelect(c) ==
    /\ cl[c].pc = "select"
    /\ cl[c].kind = "login"
    /\ cl' = IF \E k \in RowsWithEmail(users, cl[c].email) :
                    CheckPasswordHash(users[k].password_hash, cl[c].pw)
             THEN Respond(c, 200)
             ELSE Respond(c, 401)
    /\ borrowed' = PoolAfterExit(borrowed, c, "return")
    /\ UNCHANGED << db_pool, users, served, created, uniqueHits, pipeVars >>

\* lines 329-331, 352-354: any statement on the connection may raise (lost
\* connection, server error); the open transaction is rolled back
DbError(c) ==
    /\ cl[c].pc \in { "select", "insert", "commit" }
    /\ cl' = Respond(c, 500)
    /\ borrowed' = PoolAfterExit(borrowed, c, "exception")
    /\ UNCHANGED << db_pool, users, served, created, uniqueHits, pipeVars >>

DbNext ==
    \E c \in Clients :
        \/ RegisterStart(c)
        \/ LoginStart(c)
        \/ GetConn(c)
        \/ RegisterSelect(c)
        \/ RegisterInsert(c)
        \/ RegisterCommit(c)
        \/ LoginSelect(c)
        \/ DbError(c)

\* no upload is being processed while the database handlers run
PipelineIdle ==
    /\ hasFile = FALSE
    /\ doc = NoDoc
    /\ apiKey = ""
    /\ pc = "recv"
    /\ http = NoHttp
    /\ geminiCalls = 0
    /\ first_bytes = 0
    /\ pg = 0
    /\ text = <<>>
    /\ total_pages = 0
    /\ i = 0
    /\ all_text = <<>>
    /\ success_count = 0
    /\ img_bytes = 0
    /\ saves = 0
    /\ response = NoResponse
    /\ ocr_text = None
    /\ ret = None
    /\ source = "none"
    /\ raster = "none"
    /\ outcomes = <<>>
    /\ delays = {}
    /\ ocrLog = <<>>
    /\ apiCalls = 0

DbInit ==
    /\ db_pool \in BOOLEAN
    /\ DbIdle
    /\ PipelineIdle

DbSpec == DbInit /\ [][DbNext]_vars

TypeOK ==
    /\ doc \in Docs
    /\ apiKey \in ApiKeys
    /\ pc \in { "recv", "open", "get_text", "rasterize", "page", "ocr_api", "ocr_wait",
                "delay", "done", "gemini", "http_done" }
    /\ hasFile \in BOOLEAN
    /\ geminiCalls \in 0..1
    /\ pg \in 0..Len(doc.pages)
    /\ total_pages \in 0..Len(doc.pages)
    /\ i \in 0..total_pages
    /\ success_count \in 0..total_pages
    /\ saves \in 0..2
    /\ source \in { "none", "digital", "ocr" }
    /\ raster \in { "none", "ok", "failed" }
    /\ apiCalls \in 0..total_pages

\* ------------------------------------------------------------- properties
\* the page-ordered concatenation of the per-page text layers
RECURSIVE JoinPages(_)
JoinPages(pages) ==
    IF pages = <<>> THEN <<>> ELSE Head(pages) \o JoinPages(Tail(pages))

DigitalLen == TextLen(Strip(JoinPages(doc.pages)))

\* the requests issued so far, as page numbers in issue order
RECURSIVE RequestPages(_)
RequestPages(log) ==
    IF log = <<>> THEN <<>>
    ELSE IF Head(log).ev = "request"
         THEN <<Head(log).page>> \o RequestPages(Tail(log))
         ELSE RequestPages(Tail(log))

\* the page numbers of the headers of a text, in order of appearance
RECURSIVE HeaderPages(_)
HeaderPages(t) ==
    IF t = <<>> THEN <<>>
    ELSE IF Head(t).k = "hdr"
         THEN <<Head(t).p>> \o HeaderPages(Tail(t))
         ELSE HeaderPages(Tail(t))

StrictlyIncreasing(s) == \A a, b \in 1..Len(s) : a < b => s[a] < s[b]

\* text t contains the header of page p immediately followed by a newline and body
ContainsSection(t, p, body) ==
    \E j \in 1..Len(t) :
        /\ t[j] = Hdr(p)
        /\ j + 1 + Len(body) <= Len(t)
        /\ t[j + 1] = NL
        /\ SubSeq(t, j + 2, j + 1 + Len(body)) = body

OkPages == { k \in 1..Len(outcomes) : outcomes[k].st = "ok" }

\* C1: whenever the digital extractor cannot parse the buffer, extraction
\* still goes on to rasterization (ocr_scanned_pdf is invoked) instead of
\* ending in total failure directly.
C1_ParseFailureFallsBack ==
    (pc = "done" /\ ~doc.parseOK) => raster # "none"

\* C2: a PDF whose digital text has stripped length above 100 ends in the
\* digital success state: the result is exactly the page-ordered concatenation
\* of the per-page text, and no rasterization or OCR call is ever performed.
C2_DigitalSuccess ==
    (doc.parseOK /\ DigitalLen > MeaningfulThreshold) =>
        /\ raster = "none"
        /\ apiCalls = 0
        /\ ocrLog = <<>>
        /\ pc = "done" => /\ ret = Some(JoinPages(doc.pages))
                          /\ source = "digital"

C2_Witness ==
    /\ pc = "done"
    /\ source = "digital"
    /\ DigitalLen = MeaningfulThreshold + 1
    /\ Strip(ret.text) # ret.text

\* C3: a parsed PDF whose digital text has stripped length at most 100
\* (exactly 100, zero pages and empty text included) never returns the digital
\* text; rasterization is attempted instead.
C3_ShortTextRasterizes ==
    (pc = "done" /\ doc.parseOK /\ DigitalLen <= MeaningfulThreshold) =>
        /\ raster # "none"
        /\ source # "digital"

C3_Witness ==
    /\ pc = "done"
    /\ doc.parseOK
    /\ DigitalLen = MeaningfulThreshold
    /\ raster = "ok"

\* C4: if every page's OCR attempt fails (any number of pages, zero included)
\* the result is absent, and no terminal state returns an empty or
\* whitespace-only string as a success.
C4_AllFailedIsAbsent ==
    pc = "done" =>
        /\ (raster = "ok" /\ OkPages = {}) => (ocr_text = None /\ ret = None)
        /\ ocr_text.some => Strip(ocr_text.text) # <<>>
        /\ ret.some => Strip(ret.text) # <<>>

C4_Witness ==
    /\ pc = "done"
    /\ raster = "ok"
    /\ Len(outcomes) >= 2
    /\ \A k \in 1..Len(outcomes) : outcomes[k].st = "failed"
    /\ Len(ocrLog) >= 4
    /\ ocr_text = None
    /\ ret = None

\* C5: if at least one page's OCR call succeeds the OCR path returns a
\* success whose text contains, for each succeeded page, its header followed
\* by its recognized text, and no header for any page that failed.
C5_PartialSuccess ==
    (pc = "done" /\ OkPages # {}) =>
        /\ ret.some
        /\ source = "ocr"
        /\ \A k \in 1..Len(outcomes) :
             IF outcomes[k].st = "ok"
             THEN ContainsSection(ret.text, k, outcomes[k].text)
             ELSE \A j \in 1..Len(ret.text) : ret.text[j] # Hdr(k)

C5_Witness ==
    /\ pc = "done"
    /\ Len(outcomes) = 3
    /\ outcomes[1].st = "ok"
    /\ outcomes[2].st = "failed"
    /\ outcomes[3].st = "ok"
    /\ HeaderPages(ret.text) = <<1, 3>>

\* C6: once rasterization produced N pages the loop visits all N pages in
\* order whatever fails on the way, and it always terminates after the Nth.
C6_VisitsAllPages ==
    /\ [](/\ \A k \in 1..Len(outcomes) : outcomes[k].page = k
          /\ raster = "ok" => Len(outcomes) = IF pc = "delay" THEN i + 1 ELSE i
          /\ (pc = "done" /\ raster = "ok") =>
                 /\ total_pages = Len(doc.pages)
                 /\ Len(outcomes) = total_pages)
    /\ (raster = "ok") ~> (pc \in { "done", "http_done" } /\ Len(outcomes) = total_pages)

C6_Witness ==
    /\ pc = "done"
    /\ Len(outcomes) = 3
    /\ outcomes[1].st = "raised"
    /\ outcomes[2].st = "failed"
    /\ outcomes[3].st = "ok"

\* C7 (as stated): for N > 1 rasterized pages exactly N-1 delays are issued,
\* whichever pages succeed or fail.
C7_ExactlyNMinusOneDelays ==
    (pc = "done" /\ raster = "ok" /\ total_pages > 1) =>
        Cardinality(delays) = total_pages - 1

\* C7 (amended): a delay is issued exactly after every page that is not the
\* last and whose processing did not raise; none after the last page.  So at
\* most N-1 delays are issued, and exactly N-1 when no page raises.
C7_DelayAfterEachCompletedPage ==
    (pc = "done" /\ raster = "ok") =>
        /\ delays = { k \in 0..(total_pages - 2) : outcomes[k + 1].st # "raised" }
        /\ (total_pages - 1) \notin delays
        /\ Cardinality(delays) <= IF total_pages = 0 THEN 0 ELSE total_pages - 1
        /\ (\A k \in 1..Len(outcomes) : outcomes[k].st # "raised")
              => Cardinality(delays) = IF total_pages = 0 THEN 0 ELSE total_pages - 1

C7_Witness ==
    /\ pc = "done"
    /\ total_pages = 3
    /\ outcomes[1].st = "ok"
    /\ outcomes[2].st = "failed"
    /\ outcomes[3].st = "failed"
    /\ delays = {0, 1}

\* C8: if rasterization fails the extraction ends in total failure and no
\* OCR call is ever issued for the document.
C8_RasterFailureIsTotal ==
    raster = "failed" =>
        /\ pc \in { "done", "http_done" }
        /\ ocr_text = None
        /\ ret = None
        /\ source = "none"
        /\ apiCalls = 0
        /\ ocrLog = <<>>

C8_Witness ==
    /\ raster = "failed"
    /\ pc = "done"
    /\ text # <<>>
    /\ apiKey # ""

\* C9: OCR calls are issued one at a time in increasing page order (a call
\* is issued only after the previous one returned) and the page sections of
\* the final text are in strictly increasing page order.
C9_SequentialInOrder ==
    /\ StrictlyIncreasing(RequestPages(ocrLog))
    /\ \A j \in 1..Len(ocrLog) :
         /\ (ocrLog[j].ev = "request") = (j % 2 = 1)
         /\ ocrLog[j].ev = "return" => ocrLog[j].page = ocrLog[j - 1].page
    /\ StrictlyIncreasing(HeaderPages(all_text))
    /\ pc = "done" => StrictlyIncreasing(HeaderPages(ret.text))

C9_Witness ==
    /\ pc = "done"
    /\ RequestPages(ocrLog) = <<1, 2, 3>>
    /\ HeaderPages(ret.text) = <<1, 2, 3>>

\* C10: without an OCR API key every invocation of the page OCR client
\* returns absent and issues no network request, so a document that reaches
\* the OCR path ends in total failure with zero outbound OCR calls.
C10_NoKeyNoRequests ==
    apiKey = "" =>
        /\ ocrLog = <<>>
        /\ OkPages = {}
        /\ pc # "ocr_wait"
        /\ (pc = "done" /\ raster # "none") => ret = None

C10_Witness ==
    /\ apiKey = ""
    /\ pc = "done"
    /\ raster = "ok"
    /\ apiCalls = 3
    /\ ret = None

NoDuplicates(s) == \A a, b \in 1..Len(s) : a # b => s[a] # s[b]

LastOutcome == outcomes[Len(outcomes)]

\* C11 (as stated): every invocation of the page OCR client issues exactly
\* one outbound network call.
C11_ExactlyOneCallPerInvocation ==
    Len(RequestPages(ocrLog)) = apiCalls

\* C11 (amended): an invocation of the page OCR client issues at most one
\* network call, exactly one when the API key is configured and none when it
\* is absent; no page is ever submitted twice, so N pages cause at most N calls.
C11_AtMostOneCallNoRetry ==
    /\ Len(RequestPages(ocrLog)) = IF apiKey # "" THEN apiCalls ELSE 0
    /\ NoDuplicates(RequestPages(ocrLog))
    /\ Len(RequestPages(ocrLog)) <= total_pages
    /\ apiCalls <= Len(outcomes) + IF pc = "ocr_wait" THEN 1 ELSE 0

C11_Witness ==
    /\ pc = "delay"
    /\ response.kind = "timeout"
    /\ i = 1
    /\ outcomes[1].st = "failed"
    /\ RequestPages(ocrLog) = <<1, 2>>
    /\ apiCalls = 2

\* C12: the page OCR client never raises: on a missing key, a transport error
\* or timeout, a non-2xx status, a malformed body or an answer flagged as
\* errored it returns absent, and the page is recorded as failed, never as
\* aborted by an exception.
C12_ClientNeverRaises ==
    /\ \A k \in 1..Len(outcomes) :
         outcomes[k].st = "raised" =>
             \A j \in 1..Len(ocrLog) : ocrLog[j].page # k
    /\ (pc = "delay" /\ (apiKey = "" \/ response.kind # "json" \/ response.errored)) =>
             LastOutcome = [page |-> i + 1, st |-> "failed", text |-> <<>>]
    /\ pc = "ocr_wait" => apiKey # ""

C12_Witness ==
    /\ pc = "delay"
    /\ response.kind = "bad_json"
    /\ LastOutcome.st = "failed"
    /\ i = 1
    /\ outcomes[1].st = "ok"

\* C13: a page whose first encoding is larger than 1 MiB is re-encoded
\* exactly once, a page of at most 1 MiB is not re-encoded, and the page is
\* submitted with whatever the last encoding is, oversized or not.
C13_OneReencodeAtMost ==
    /\ saves <= 2
    /\ pc \in { "ocr_api", "ocr_wait", "delay" } =>
         /\ saves = IF first_bytes > OcrSizeLimit THEN 2 ELSE 1
         /\ saves = 1 => (img_bytes = first_bytes /\ img_bytes <= OcrSizeLimit)
    /\ (pc \in { "ocr_wait", "delay" } /\ apiKey # "") =>
         /\ RequestPages(ocrLog) # <<>>
         /\ RequestPages(ocrLog)[Len(RequestPages(ocrLog))] = i + 1

C13_Witness ==
    /\ pc = "ocr_wait"
    /\ saves = 2
    /\ first_bytes > OcrSizeLimit
    /\ img_bytes > OcrSizeLimit
    /\ ocrLog[Len(ocrLog)] = [ev |-> "request", page |-> i + 1]

\* C14: /summarize reports an extraction error exactly when the extraction
\* ended in total failure, and the summarization call is made only after an
\* extraction that returned non-empty text.
C14_ErrorIffTotalFailure ==
    /\ pc = "http_done" => ((http.error = "extraction") <=> (hasFile /\ ret = None))
    /\ pc = "gemini" => (ret.some /\ Strip(ret.text) # <<>>)
    /\ geminiCalls > 0 => (ret.some /\ Strip(ret.text) # <<>>)
    /\ geminiCalls <= 1

C14_Witness ==
    /\ pc = "http_done"
    /\ http = Http(200, "none")
    /\ geminiCalls = 1
    /\ OkPages # {}
    /\ \E k \in 1..Len(outcomes) : outcomes[k].st = "failed"

\* C15: success_count always equals the number of page headers appended to
\* the accumulator, never exceeds the number of pages visited, and the OCR
\* loop ends in success exactly when success_count is at least 1.
C15_SuccessCountMatchesHeaders ==
    /\ success_count = Len(HeaderPages(all_text))
    /\ success_count = Cardinality(OkPages)
    /\ success_count <= Len(outcomes)
    /\ (pc = "done" /\ raster = "ok") => (ocr_text.some <=> success_count >= 1)

C15_Witness ==
    /\ pc = "done"
    /\ total_pages = 3
    /\ success_count = 2
    /\ outcomes[2].st = "failed"
    /\ apiKey # ""
    /\ ocr_text.some

\* every recognized text of the answer consists of whitespace only
BlankParsed(parsed) ==
    \A k \in 1..Len(parsed) : \A j \in 1..Len(parsed[k]) : parsed[k][j].k = "ws"

\* C16: a well-formed, non-errored answer whose recognized text is empty or
\* whitespace only (an empty ParsedResults list included) counts as a failed
\* page: the client returns absent, no header is appended, the success
\* counter is not incremented.
C16_BlankTextIsFailure ==
    (pc = "delay" /\ response.kind = "json" /\ ~response.errored
        /\ BlankParsed(response.parsed)) =>
        /\ OcrParse(response) = None
        /\ LastOutcome = [page |-> i + 1, st |-> "failed", text |-> <<>>]
        /\ \A j \in 1..Len(all_text) : all_text[j] # Hdr(i + 1)
        /\ success_count = Cardinality(OkPages \ { Len(outcomes) })

C16_Witness ==
    /\ pc = "delay"
    /\ response.kind = "json"
    /\ response.parsed = << <<WS>> >>
    /\ i = 1
    /\ success_count = 1
    /\ HeaderPages(all_text) = <<1>>

\* C17: whatever the interleaving of /register requests with the same email,
\* at most one of them is answered 201 and at most one row with that email
\* exists, although the existence check and the insert are separate steps.
C17_AtMostOneRegistration ==
    \A e \in Emails :
        /\ created[e] <= 1
        /\ Cardinality(RowsWithEmail(users, e)) <= 1
        /\ created[e] = Cardinality(RowsWithEmail(users, e))

C17_Witness ==
    \E e \in Emails :
        /\ created[e] = 1
        /\ e \in uniqueHits
        /\ Cardinality(RowsWithEmail(users, e)) = 1
        /\ \E c \in Clients : cl[c].status = 201
        /\ \E c \in Clients : cl[c].status = 500

\* C18: a connection taken from the pool is given back on every exit path
\* of the handler (201, 409, 401, 200 and 500), so once all started requests
\* are completed no connection is borrowed.
C18_ConnectionsReturned ==
    /\ \A c \in Clients : cl[c].pc \in { "idle", "getconn" } => c \notin borrowed
    /\ \A c \in borrowed : cl[c].pc \in { "select", "insert", "commit" }
    /\ (\A c \in Clients : cl[c].pc = "idle") => borrowed = {}

C18_Witness ==
    /\ \A c \in Clients : cl[c].pc = "idle"
    /\ borrowed = {}
    /\ served = 3
    /\ \E c1, c2 \in Clients : cl[c1].status = 409 /\ cl[c2].status = 500

====
